---- MODULE Spec2Model ----
(***************************************************************************)
(* LINE sales bot: the webhook server of src/server.js.                    *)
(*                                                                         *)
(* One behaviour is one run of the server process: the environment is read *)
(* once (server.js:18-19), then each inbound request walks the middleware  *)
(* stack in registration order and the /webhook handler runs, suspending   *)
(* at each await.                                                          *)
(*                                                                         *)
(* Scope of the model:                                                     *)
(*  - inbound bodies are well-formed JSON sent as application/json;        *)
(*  - a text on the wire is a pair (document, formatting): "compact" is    *)
(*    the byte sequence JSON.stringify emits for the document, "escaped"   *)
(*    any other encoding of the same document (whitespace, \u escapes);    *)
(*  - HMAC-SHA256/base64 is symbolic: a digest is the pair (key, message), *)
(*    so two digests are equal iff key and message are equal;              *)
(*  - the text returned by the classification service is a sequence of     *)
(*    lexical tokens, parsed by JSONParse for scalars and flat objects;    *)
(*  - console output and the LogRecord timestamp are left out.             *)
(***************************************************************************)
EXTENDS Integers, Sequences, FiniteSets, TLC

\* Longest inbound batch (number of events in one request body).
MaxEvents == 2

(***************************************************************************)
(* JavaScript values.                                                      *)
(***************************************************************************)
Undefined == [t |-> "undefined"]
Null      == [t |-> "null"]
Str(s)    == [t |-> "string", s |-> s]
Num(n)    == [t |-> "number", n |-> n]
Obj(f)    == [t |-> "object", f |-> f]
Arr(a)    == [t |-> "array", a |-> a]

\* ToBoolean: what `!x`, `x ? a : b` and `x || y` test.
Truthy(v) ==
  CASE v.t = "undefined" -> FALSE
    [] v.t = "null"      -> FALSE
    [] v.t = "string"    -> v.s # ""
    [] v.t = "number"    -> v.n # 0
    [] OTHER             -> TRUE

\* Outcome of evaluating a piece of code: a value, or a thrown exception.
Return(v) == [threw |-> FALSE, value |-> v]
Throw(e)  == [threw |-> TRUE, error |-> e]

\* Property read `v.k`: throws on undefined and null, undefined when absent.
Get(v, k) ==
  IF v.t \in {"undefined", "null"} THEN Throw("TypeError")
  ELSE IF v.t = "object" /\ k \in DOMAIN v.f THEN Return(v.f[k])
  ELSE Return(Undefined)

(***************************************************************************)
(* Texts on the wire and the JSON round trip of the request body.          *)
(***************************************************************************)
Text(doc, fmt) == [doc |-> doc, fmt |-> fmt]

\* JSON.parse of a request body (express.json).
ParseBody(text) == text.doc

\* JSON.stringify of a parsed body: always the compact encoding.
JSONStringify(doc) == Text(doc, "compact")

(***************************************************************************)
(* crypto.createHmac('sha256', key).update(msg).digest('base64')           *)
(***************************************************************************)
HmacBase64(key, msg) == [alg |-> "sha256", key |-> key, msg |-> msg]

(***************************************************************************)
(* Text returned by the classification service: a sequence of tokens. A    *)
(* token is a punctuation mark, a JSON scalar (written as the value it     *)
(* denotes) or a lexeme that is not JSON at all.                            *)
(***************************************************************************)
Punct(c) == [p |-> c]
Junk(w)  == [junk |-> w]

IsScalar(k)   == "t" \in DOMAIN k
IsPunct(k, c) == "p" \in DOMAIN k /\ k.p = c
IsKey(k)      == IsScalar(k) /\ k.t = "string"

\* Number of key/value members of a token sequence shaped { k : v , ... }.
MemberCount(toks) == (Len(toks) - 1) \div 4

IsFlatObject(toks) ==
  LET n == Len(toks) IN
  /\ n >= 2
  /\ IsPunct(toks[1], "{")
  /\ IsPunct(toks[n], "}")
  /\ \/ n = 2
     \/ /\ n % 4 = 1
        /\ \A i \in 0 .. (MemberCount(toks) - 1) :
             /\ IsKey(toks[2 + 4 * i])
             /\ IsPunct(toks[3 + 4 * i], ":")
             /\ IsScalar(toks[4 + 4 * i])
             /\ (i < MemberCount(toks) - 1 => IsPunct(toks[5 + 4 * i], ","))

\* The members of a flat object; of two members with one key the later wins.
Members(toks) ==
  LET ix   == 0 .. (MemberCount(toks) - 1)
      keys == {toks[2 + 4 * i].s : i \in ix}
      last(k) == CHOOSE i \in ix :
                   /\ toks[2 + 4 * i].s = k
                   /\ \A j \in ix : toks[2 + 4 * j].s = k => j <= i
  IN [k \in keys |-> toks[4 + 4 * last(k)]]

\* JSON.parse (server.js:79) on scalars and flat objects.
JSONParse(toks) ==
  IF Len(toks) = 1 /\ IsScalar(toks[1]) THEN Return(toks[1])
  ELSE IF IsFlatObject(toks) THEN Return(Obj(Members(toks)))
  ELSE Throw("SyntaxError")

\* The text of an object literal with the given members, in order.
RECURSIVE ObjectText(_)
ObjectText(kvs) ==
  IF Len(kvs) = 0 THEN <<Punct("{"), Punct("}")>>
  ELSE IF Len(kvs) = 1
    THEN <<Punct("{"), Str(kvs[1][1]), Punct(":"), kvs[1][2], Punct("}")>>
    ELSE <<Punct("{"), Str(kvs[1][1]), Punct(":"), kvs[1][2], Punct(",")>>
           \o Tail(ObjectText(Tail(kvs)))

(***************************************************************************)
(* State.                                                                  *)
(***************************************************************************)
VARIABLES
  env,            \* process.env as read at start-up (server.js:18-19)
  req,            \* per request: the express request object
  pc,             \* per request: where its handling stands
  layer,          \* per request: index of the middleware layer it is at
  idx,            \* per request: position of the for-of loop in events
  analysis,       \* per request: the handler's local `analysis`
  res,            \* per request: the response sent, if any
  svc,            \* per request: what the classification service did last
  sigChecks,      \* per request: the calls of validateLineSignature made
  classifyCalls,  \* per request: messages passed to analyzeMessageWithClaude
  outbound,       \* per request: messages posted to the classification API
  sink,           \* the records passed to logToSheet, in order
  tmEnv,          \* token minter: process.env (generate-token.js:15-17)
  tmPc,           \* token minter: where the run stands ("idle": not run)
  tmKey,          \* token minter: PRIVATE_KEY, the parsed credential
  tmSent,         \* token minter: token-exchange requests written
  tmIssuer,       \* token minter: what the issuer did
  tmPromise,      \* token minter: the promise of issueChannelAccessToken
  tmOut,          \* token minter: what the run reported on the console
  tmExit          \* token minter: the exit code once the process has ended

serverVars == <<env, req, pc, layer, idx, analysis, res, svc, sigChecks,
                classifyCalls, outbound, sink>>

minterVars == <<tmEnv, tmPc, tmKey, tmSent, tmIssuer, tmPromise, tmOut, tmExit>>

vars == <<serverVars, minterVars>>

LINE_CHANNEL_SECRET == env.LINE_CHANNEL_SECRET
CLAUDE_API_KEY      == env.CLAUDE_API_KEY

(***************************************************************************)
(* validateLineSignature (server.js:26-33). createHmac throws a TypeError  *)
(* when the key is not a string; `===` compares the digest to the header.  *)
(***************************************************************************)
validateLineSignature_KeyOnly(body, signature) ==
  IF LINE_CHANNEL_SECRET.t # "string" THEN Throw("TypeError")
  ELSE Return("key" \in DOMAIN signature
              /\ signature.key = LINE_CHANNEL_SECRET.s)

validateLineSignature(body, signature) ==
  IF LINE_CHANNEL_SECRET.t # "string" THEN Throw("TypeError")
  ELSE Return(HmacBase64(LINE_CHANNEL_SECRET.s, body) = signature)

(***************************************************************************)
(* analyzeMessageWithClaude (server.js:36-90).                             *)
(***************************************************************************)
\* The literal of server.js:87, rendered in English as the specification
\* renders it (a TLA+ string holds ASCII only).
UnableToAnalyze == "unable to analyze"

\* server.js:39-43, returned when no API key is configured.
NoKeyResult(message) ==
  Obj([type |-> Str("unknown"), intentScore |-> Num(0),
       response |-> Str(message)])

\* server.js:83-88, returned by the catch block.
CatchResult_Response(message) ==
  Obj([type |-> Str("unknown"), intentScore |-> Num(0),
       response |-> Str(message), suggestedAction |-> Str(UnableToAnalyze)])

CatchResult(message) ==
  Obj([type |-> Str("unknown"), intentScore |-> Num(0),
       summary |-> Str(message), suggestedAction |-> Str(UnableToAnalyze)])

\* axios.post (server.js:47-76): rejects on a transport error and, by
\* axios' default validateStatus, on every status outside 200..299.
AxiosPost(outcome) ==
  IF outcome.kind = "error" THEN Throw(outcome.code)
  ELSE IF outcome.status < 200 \/ outcome.status > 299 THEN Throw("AxiosError")
  ELSE Return(outcome.data)

\* response.data.content[0].text (server.js:78).
ContentText(data) ==
  IF data.content.t # "array" THEN Throw("TypeError")
  ELSE IF Len(data.content.a) = 0 THEN Throw("TypeError")
  ELSE Return(data.content.a[1].text)

\* server.js:46-89 from the point where the awaited post settles.
AnalyzeAfterPost(message, outcome) ==
  LET posted == AxiosPost(outcome) IN
  IF posted.threw THEN CatchResult(message)
  ELSE LET content == ContentText(posted.value) IN
    IF content.threw THEN CatchResult(message)
    ELSE LET parsed == JSONParse(content.value) IN
      IF parsed.threw THEN CatchResult(message)
      ELSE parsed.value

(***************************************************************************)
(* Inputs: environments, inbound requests, service behaviours.             *)
(***************************************************************************)
SecretPool == {Undefined, Str(""), Str("s3cret")}
ApiKeyPool == {Undefined, Str(""), Str("sk-key")}

\* Major version of the installed express: 4 leaves a rejected async handler
\* to the process (unhandledRejection), 5 passes it to the error handler.
ExpressPool == {4, 5}

EnvPool ==
  [LINE_CHANNEL_SECRET : SecretPool, CLAUDE_API_KEY : ApiKeyPool,
   express : ExpressPool]

\* Keys a sender may sign with: none, the channel secret, a key of its own.
SignerKeys == {"", "s3cret", "forged"}

UserSource(userId, groupId) ==
  [type |-> "user", userId |-> Str(userId), groupId |-> groupId]

TextEvent(text, source) ==
  [type |-> "message", message |-> [type |-> "text", text |-> text],
   source |-> source]

EventPool ==
  { TextEvent("m1", UserSource("U1", Str("G1"))),
    TextEvent("m2", UserSource("U2", Undefined)),
    TextEvent("m3", Undefined),
    [type |-> "follow", message |-> Undefined,
     source |-> UserSource("U1", Undefined)],
    [type |-> "message", message |-> [type |-> "image"],
     source |-> UserSource("U1", Undefined)],
    [type |-> "message", message |-> Undefined,
     source |-> UserSource("U2", Undefined)] }

Batches == UNION {[1 .. n -> EventPool] : n \in 0 .. MaxEvents}

DocPool == {[events |-> Undefined]} \cup {[events |-> Arr(b)] : b \in Batches}

WirePool == {Text(d, f) : d \in DocPool, f \in {"compact", "escaped"}}

SignaturePool(wire) ==
  {Undefined} \cup
  {HmacBase64(k, m) : k \in SignerKeys,
                      m \in {wire, JSONStringify(ParseBody(wire))}}

InboundPool ==
  UNION {{[wire |-> w, signature |-> s, body |-> Undefined,
           rawBody |-> Undefined, parsed |-> FALSE] : s \in SignaturePool(w)}
         : w \in WirePool}

ValidText ==
  ObjectText(<< <<"type", Str("faq")>>, <<"intentScore", Num(80)>>,
                <<"summary", Str("asks for the price")>>,
                <<"suggestedAction", Str("send the price list")>> >>)

OutOfRangeText ==
  ObjectText(<< <<"type", Str("spam")>>, <<"intentScore", Num(150)>>,
                <<"summary", Str("s")>>, <<"suggestedAction", Str("a")>> >>)

MissingFieldText == ObjectText(<< <<"type", Str("faq")>> >>)

\* Prose around the object, and an object cut off by the token budget.
ProseText == <<Junk("Here"), Junk("you"), Junk("go")>> \o ValidText

TruncatedText == SubSeq(ValidText, 1, 7)

ContentPool ==
  { ValidText, OutOfRangeText, MissingFieldText, <<Null>>, <<Num(42)>>,
    ProseText, TruncatedText }

ServiceOutcomes ==
  {[kind |-> "error", code |-> c] : c \in {"ECONNREFUSED", "ETIMEDOUT"}}
  \cup
  {[kind |-> "response", status |-> 500, data |-> [content |-> c]]
     : c \in {Undefined, Arr(<<[text |-> ValidText]>>)}}
  \cup
  {[kind |-> "response", status |-> 200, data |-> [content |-> c]]
     : c \in {Undefined, Arr(<<>>)}
             \cup {Arr(<<[text |-> t]>>) : t \in ContentPool}}

NoOutcome  == [kind |-> "none"]
NoResponse == [status |-> 0]

(***************************************************************************)
(* The middleware stack in registration order (server.js:15, 108, 169).    *)
(***************************************************************************)
MiddlewareStack ==
  << [kind |-> "json", verify |-> FALSE],
     [kind |-> "webhook", verify |-> FALSE],
     [kind |-> "json", verify |-> TRUE] >>

\* The token minter is a separate program; it does not run in the server.
MinterIdle ==
  /\ tmEnv = Undefined
  /\ tmPc = "idle"
  /\ tmKey = Undefined
  /\ tmSent = <<>>
  /\ tmIssuer = NoOutcome
  /\ tmPromise = [state |-> "none"]
  /\ tmOut = <<>>
  /\ tmExit = Undefined

Init ==
  /\ env \in EnvPool
  /\ req \in [{1} -> InboundPool]
  /\ pc = [r \in DOMAIN req |-> "chain"]
  /\ layer = [r \in DOMAIN req |-> 1]
  /\ idx = [r \in DOMAIN req |-> 0]
  /\ analysis = [r \in DOMAIN req |-> Undefined]
  /\ res = [r \in DOMAIN req |-> NoResponse]
  /\ svc = [r \in DOMAIN req |-> NoOutcome]
  /\ sigChecks = [r \in DOMAIN req |-> <<>>]
  /\ classifyCalls = [r \in DOMAIN req |-> <<>>]
  /\ outbound = [r \in DOMAIN req |-> <<>>]
  /\ sink = <<>>
  /\ MinterIdle

(***************************************************************************)
(* Middleware and the /webhook handler (server.js:108-166).                *)
(***************************************************************************)

\* express.json(): parses the body once; only a parser given `verify`
\* stores the raw text in req.rawBody (server.js:15 and 169-173).
BodyParser(r) ==
  /\ pc[r] = "chain"
  /\ layer[r] <= Len(MiddlewareStack)
  /\ MiddlewareStack[layer[r]].kind = "json"
  /\ req' = [req EXCEPT ![r] =
       IF req[r].parsed THEN req[r]
       ELSE [req[r] EXCEPT !.body = ParseBody(req[r].wire),
                           !.parsed = TRUE,
                           !.rawBody = IF MiddlewareStack[layer[r]].verify
                                       THEN req[r].wire ELSE req[r].rawBody]]
  /\ layer' = [layer EXCEPT ![r] = @ + 1]
  /\ UNCHANGED <<env, pc, idx, analysis, res, svc, sigChecks,
                 classifyCalls, outbound, sink>>

\* server.js:110: req.rawBody || JSON.stringify(req.body)
VerifiedBody(rq) ==
  IF rq.rawBody # Undefined THEN rq.rawBody ELSE JSONStringify(rq.body)

InvalidSignature == [status |-> 401, body |-> [error |-> "Invalid signature"]]
Acknowledged     == [status |-> 200, body |-> [ok |-> TRUE]]
ServerError      == [status |-> 500, body |-> [error |-> "Internal Server Error"]]

\* server.js:108-121: signature check; 401 on failure, else enter the loop.
\* validateLineSignature is called at line 113 and again at line 116.
WebhookVerify(r) ==
  /\ pc[r] = "chain"
  /\ layer[r] <= Len(MiddlewareStack)
  /\ MiddlewareStack[layer[r]].kind = "webhook"
  /\ LET signature == req[r].signature
         body      == VerifiedBody(req[r])
         check     == validateLineSignature(body, signature)
         call      == [body |-> body, signature |-> signature, result |-> check]
     IN
       IF check.threw
       THEN /\ sigChecks' = [sigChecks EXCEPT ![r] = Append(@, call)]
            /\ pc' = [pc EXCEPT ![r] = "threw"]
            /\ UNCHANGED <<res, idx>>
       ELSE /\ sigChecks' = [sigChecks EXCEPT ![r] = @ \o <<call, call>>]
            /\ IF check.value
               THEN /\ pc' = [pc EXCEPT ![r] = "loop"]
                    /\ idx' = [idx EXCEPT ![r] = 1]
                    /\ UNCHANGED res
               ELSE /\ pc' = [pc EXCEPT ![r] = "done"]
                    /\ res' = [res EXCEPT ![r] = InvalidSignature]
                    /\ UNCHANGED idx
  /\ UNCHANGED <<env, req, layer, analysis, svc, classifyCalls, outbound, sink>>

\* server.js:123: const events = req.body.events
Events(r) == req[r].body.events

\* As LoopStep, leaving the loop one event early.
LoopStep_EndEarly(r) ==
  IF Events(r).t # "array" THEN "throw"
  ELSE IF idx[r] >= Len(Events(r).a) THEN "end"
  ELSE LET event == Events(r).a[idx[r]] IN
    IF event.type # "message" THEN "skip"
    ELSE IF event.message = Undefined THEN "throw"
    ELSE IF event.message.type # "text" THEN "skip"
    ELSE IF event.source = Undefined THEN "throw"
    ELSE "qualify"

\* What the loop does at its current position (server.js:125-133, 165):
\* "throw" when events is not iterable or a field read fails, "end" past the
\* last event, "skip" for an event the filter rejects, "qualify" otherwise.
LoopStep(r) ==
  IF Events(r).t # "array" THEN "throw"
  ELSE IF idx[r] > Len(Events(r).a) THEN "end"
  ELSE LET event == Events(r).a[idx[r]] IN
    IF event.type # "message" THEN "skip"
    ELSE IF event.message = Undefined THEN "throw"
    ELSE IF event.message.type # "text" THEN "skip"
    ELSE IF event.source = Undefined THEN "throw"
    ELSE "qualify"

CurrentEvent(r) == Events(r).a[idx[r]]

\* server.js:131: const userMessage = event.message.text
UserMessage(r) == CurrentEvent(r).message.text

\* server.js:165: res.json({ ok: true })
LoopEnd(r) ==
  /\ pc[r] = "loop"
  /\ LoopStep(r) = "end"
  /\ res' = [res EXCEPT ![r] = Acknowledged]
  /\ pc' = [pc EXCEPT ![r] = "done"]
  /\ UNCHANGED <<env, req, layer, idx, analysis, svc, sigChecks,
                 classifyCalls, outbound, sink>>

\* A TypeError inside the loop rejects the handler's promise.
LoopThrow(r) ==
  /\ pc[r] = "loop"
  /\ LoopStep(r) = "throw"
  /\ pc' = [pc EXCEPT ![r] = "threw"]
  /\ UNCHANGED <<env, req, layer, idx, analysis, res, svc, sigChecks,
                 classifyCalls, outbound, sink>>

\* server.js:130: the filter rejects the event.
SkipEvent(r) ==
  /\ pc[r] = "loop"
  /\ LoopStep(r) = "skip"
  /\ idx' = [idx EXCEPT ![r] = @ + 1]
  /\ UNCHANGED <<env, req, pc, layer, analysis, res, svc, sigChecks,
                 classifyCalls, outbound, sink>>

\* server.js:141 with 36-47: the call of analyzeMessageWithClaude up to its
\* first suspension: without a key it returns at once, with one it posts.
CallAnalyze(r) ==
  /\ pc[r] = "loop"
  /\ LoopStep(r) = "qualify"
  /\ classifyCalls' = [classifyCalls EXCEPT ![r] = Append(@, UserMessage(r))]
  /\ IF ~Truthy(CLAUDE_API_KEY)
     THEN /\ analysis' = [analysis EXCEPT ![r] = NoKeyResult(UserMessage(r))]
          /\ pc' = [pc EXCEPT ![r] = "classified"]
          /\ svc' = [svc EXCEPT ![r] = NoOutcome]
          /\ UNCHANGED outbound
     ELSE /\ outbound' = [outbound EXCEPT ![r] = Append(@, UserMessage(r))]
          /\ pc' = [pc EXCEPT ![r] = "awaitClaude"]
          /\ UNCHANGED <<analysis, svc>>
  /\ UNCHANGED <<env, req, layer, idx, res, sigChecks, sink>>

\* As ClaudeSettles, posting once more after a rejected post.
ClaudeSettles_Retry(r) ==
  /\ pc[r] = "awaitClaude"
  /\ \E outcome \in ServiceOutcomes :
       IF AxiosPost(outcome).threw /\ Len(outbound[r]) <= Len(classifyCalls[r])
       THEN /\ outbound' = [outbound EXCEPT ![r] = Append(@, UserMessage(r))]
            /\ UNCHANGED <<svc, analysis, pc>>
       ELSE /\ svc' = [svc EXCEPT ![r] = outcome]
            /\ analysis' = [analysis EXCEPT ![r] =
                              AnalyzeAfterPost(UserMessage(r), outcome)]
            /\ pc' = [pc EXCEPT ![r] = "classified"]
            /\ UNCHANGED outbound
  /\ UNCHANGED <<env, req, layer, idx, res, sigChecks, classifyCalls, sink>>

\* As ClaudeSettles, with `analysis` held in one variable of the module that
\* all requests in flight share.
ClaudeSettles_SharedAnalysis(r) ==
  /\ pc[r] = "awaitClaude"
  /\ \E outcome \in ServiceOutcomes :
       /\ svc' = [svc EXCEPT ![r] = outcome]
       /\ analysis' = [q \in DOMAIN req |->
                         AnalyzeAfterPost(UserMessage(r), outcome)]
  /\ pc' = [pc EXCEPT ![r] = "classified"]
  /\ UNCHANGED <<env, req, layer, idx, res, sigChecks, classifyCalls,
                 outbound, sink>>

\* The awaited post settles and analyzeMessageWithClaude returns.
ClaudeSettles(r) ==
  /\ pc[r] = "awaitClaude"
  /\ \E outcome \in ServiceOutcomes :
       /\ svc' = [svc EXCEPT ![r] = outcome]
       /\ analysis' = [analysis EXCEPT ![r] =
                         AnalyzeAfterPost(UserMessage(r), outcome)]
  /\ pc' = [pc EXCEPT ![r] = "classified"]
  /\ UNCHANGED <<env, req, layer, idx, res, sigChecks, classifyCalls,
                 outbound, sink>>

\* The value of a property read that did not throw.
Field(v, k) == Get(v, k).value

\* As LogRecord, reading the category from `analysis.category`.
LogRecord_Category(r) ==
  LET event == CurrentEvent(r) IN
  [req            |-> r,
   userId         |-> event.source.userId,
   groupId        |-> IF Truthy(event.source.groupId)
                      THEN event.source.groupId ELSE Str("N/A"),
   message        |-> Str(event.message.text),
   analysisType   |-> Field(analysis[r], "category"),
   intentScore    |-> Field(analysis[r], "intentScore"),
   summary        |-> Field(analysis[r], "summary"),
   suggestedAction |-> Field(analysis[r], "suggestedAction")]

\* server.js:150-159: the object passed to logToSheet. `req` names the
\* request the record was written for.
LogRecord(r) ==
  LET event == CurrentEvent(r) IN
  [req            |-> r,
   userId         |-> event.source.userId,
   groupId        |-> IF Truthy(event.source.groupId)
                      THEN event.source.groupId ELSE Str("N/A"),
   message        |-> Str(event.message.text),
   analysisType   |-> Field(analysis[r], "type"),
   intentScore    |-> Field(analysis[r], "intentScore"),
   summary        |-> Field(analysis[r], "summary"),
   suggestedAction |-> Field(analysis[r], "suggestedAction")]

\* server.js:143-159: read the fields of `analysis` (a TypeError when it is
\* null) and call logToSheet.
LogAnalysis(r) ==
  /\ pc[r] = "classified"
  /\ IF Get(analysis[r], "type").threw
     THEN /\ pc' = [pc EXCEPT ![r] = "threw"]
          /\ UNCHANGED sink
     ELSE /\ sink' = Append(sink, LogRecord(r))
          /\ pc' = [pc EXCEPT ![r] = "awaitSink"]
  /\ UNCHANGED <<env, req, layer, idx, analysis, res, svc, sigChecks,
                 classifyCalls, outbound>>

\* logToSheet (server.js:93-105) only prints, so its promise resolves; the
\* loop moves on (server.js:161-163).
SinkSettles(r) ==
  /\ pc[r] = "awaitSink"
  /\ idx' = [idx EXCEPT ![r] = @ + 1]
  /\ pc' = [pc EXCEPT ![r] = "loop"]
  /\ UNCHANGED <<env, req, layer, analysis, res, svc, sigChecks,
                 classifyCalls, outbound, sink>>

\* The handler's promise rejected. Under express 4 nobody answers the
\* request and the process logs the rejection (server.js:195-197); under
\* express 5 the default error handler answers 500.
HandlerRejected(r) ==
  /\ pc[r] = "threw"
  /\ IF env.express = 4
     THEN /\ pc' = [pc EXCEPT ![r] = "hung"]
          /\ UNCHANGED res
     ELSE /\ pc' = [pc EXCEPT ![r] = "done"]
          /\ res' = [res EXCEPT ![r] = ServerError]
  /\ UNCHANGED <<env, req, layer, idx, analysis, svc, sigChecks,
                 classifyCalls, outbound, sink>>

Next ==
  \/ \E r \in DOMAIN req : BodyParser(r) /\ UNCHANGED minterVars
  \/ \E r \in DOMAIN req : WebhookVerify(r) /\ UNCHANGED minterVars
  \/ \E r \in DOMAIN req : LoopEnd(r) /\ UNCHANGED minterVars
  \/ \E r \in DOMAIN req : LoopThrow(r) /\ UNCHANGED minterVars
  \/ \E r \in DOMAIN req : SkipEvent(r) /\ UNCHANGED minterVars
  \/ \E r \in DOMAIN req : CallAnalyze(r) /\ UNCHANGED minterVars
  \/ \E r \in DOMAIN req : ClaudeSettles(r) /\ UNCHANGED minterVars
  \/ \E r \in DOMAIN req : LogAnalysis(r) /\ UNCHANGED minterVars
  \/ \E r \in DOMAIN req : SinkSettles(r) /\ UNCHANGED minterVars
  \/ \E r \in DOMAIN req : HandlerRejected(r) /\ UNCHANGED minterVars

Spec == Init /\ [][Next]_vars

\* The handling of request r has come to rest.
Finished(r) == pc[r] \in {"done", "hung"}

(***************************************************************************)
(* Vocabulary of the properties.                                           *)
(***************************************************************************)

\* The records request r passed to the sink, in order.
SinkOf(r) == SelectSeq(sink, LAMBDA rec : rec.req = r)

\* Request r carries the digest of its own wire bytes under the configured
\* channel secret.
SignedByChannel(r) ==
  /\ LINE_CHANNEL_SECRET.t = "string"
  /\ req[r].signature = HmacBase64(LINE_CHANNEL_SECRET.s, req[r].wire)

\* The handler of request r got past the signature check (server.js:121).
PassedVerification(r) == idx[r] > 0

\* Nothing of request r was classified or written to the sink.
NoDispatch(r) == classifyCalls[r] = <<>> /\ outbound[r] = <<>> /\ SinkOf(r) = <<>>

\* C1: a request whose signature header is missing or is not the HMAC of its
\* body is answered 401 {error: "Invalid signature"} and nothing of it is
\* classified or written to the sink.
C1_UnsignedIsRejected ==
  \A r \in DOMAIN req :
    ~SignedByChannel(r) =>
      /\ NoDispatch(r)
      /\ ~PassedVerification(r)
      /\ Finished(r) => res[r] = InvalidSignature

\* C2: every request is answered, with 200 {ok: true} when verification
\* passed and 401 when it failed, whatever the batch holds and whatever the
\* classifier and the sink do; no other status, no request left unanswered.
\* Stated for a server whose channel secret is configured.
C2_Answered200Or401 ==
  \A r \in DOMAIN req :
    (Finished(r) /\ Truthy(LINE_CHANNEL_SECRET)) =>
      /\ res[r] \in {Acknowledged, InvalidSignature}
      /\ res[r] = Acknowledged <=> PassedVerification(r)

\* C3: the bytes given to signature verification are the raw request body as
\* received, which the raw-body capture has stored in req.rawBody by the time
\* the handler reads it; never a re-serialization of the parsed body.
C3_VerifiesRawBytes ==
  \A r \in DOMAIN req :
    \A i \in DOMAIN sigChecks[r] :
      /\ req[r].rawBody = req[r].wire
      /\ sigChecks[r][i].body = req[r].wire

\* C4: with the channel secret absent or empty, verification fails closed:
\* no request passes it, and every request is answered 401 without dispatch.
C4_FailsClosedWithoutSecret ==
  \A r \in DOMAIN req :
    ~Truthy(LINE_CHANNEL_SECRET) =>
      /\ ~PassedVerification(r)
      /\ NoDispatch(r)
      /\ Finished(r) => res[r] = InvalidSignature

\* C5: validateLineSignature(body, signature) returns true exactly when the
\* base64 HMAC-SHA256 of that body under the channel secret is the given
\* signature; a signature made over any other body is not accepted.
C5_TrueIffHmacOfBody ==
  \A r \in DOMAIN req :
    \A i \in DOMAIN sigChecks[r] :
      LET call == sigChecks[r][i] IN
      /\ call.result = Return(TRUE) <=>
           /\ LINE_CHANNEL_SECRET.t = "string"
           /\ call.signature # Undefined
           /\ call.signature.key = LINE_CHANNEL_SECRET.s
           /\ call.signature.msg = call.body
      /\ (call.signature # Undefined /\ call.signature.msg # call.body)
           => call.result # Return(TRUE)

\* A request signed with the channel secret over other bytes than the ones
\* verified has been checked and found invalid.
C5_Witness ==
  \E r \in DOMAIN req :
    /\ sigChecks[r] # <<>>
    /\ LINE_CHANNEL_SECRET = Str("s3cret")
    /\ req[r].signature # Undefined
    /\ req[r].signature.key = "s3cret"
    /\ req[r].signature.msg # sigChecks[r][1].body
    /\ sigChecks[r][1].result = Return(FALSE)

\* The filter of the dispatcher as the specification words it: event kind
\* "message" and message kind "text".
Qualifying(event) ==
  /\ event.type = "message"
  /\ event.message # Undefined
  /\ event.message.type = "text"

\* The message texts of the qualifying events of a batch, in input order.
QualifyingMessages(batch) ==
  LET q == SelectSeq(batch, Qualifying) IN
  [i \in 1 .. Len(q) |-> q[i].message.text]

\* The message texts of the records request r wrote to the sink, in order.
SinkMessages(r) ==
  LET w == SinkOf(r) IN [i \in 1 .. Len(w) |-> w[i].message.s]

\* The event carries the fields its kind has on the wire: a source, and a
\* message when it is a message event.
Complete(event) ==
  /\ event.source # Undefined
  /\ event.type = "message" => event.message # Undefined

\* C6: a verified batch with N events of kind "message" and message kind
\* "text" and M others causes exactly N classification calls and exactly N
\* sink writes, the writes in the order of the qualifying events. Stated for
\* batches all of whose events are complete.
C6_ExactlyNInInputOrder ==
  \A r \in DOMAIN req :
    ( /\ Finished(r)
      /\ PassedVerification(r)
      /\ Events(r).t = "array"
      /\ \A i \in DOMAIN Events(r).a : Complete(Events(r).a[i]) ) =>
      /\ classifyCalls[r] = QualifyingMessages(Events(r).a)
      /\ SinkMessages(r) = QualifyingMessages(Events(r).a)

Categories == {"faq", "high_intent", "other", "unknown"}

\* v is a ClassificationResult: category in Categories, intentScore an
\* integer in 0..100.
IsClassificationResult(v) ==
  /\ v.t = "object"
  /\ "type" \in DOMAIN v.f
  /\ v.f["type"].t = "string"
  /\ v.f["type"].s \in Categories
  /\ "intentScore" \in DOMAIN v.f
  /\ v.f["intentScore"].t = "number"
  /\ v.f["intentScore"].n \in 0 .. 100

\* C7: whatever the service does, analyzeMessageWithClaude returns a
\* ClassificationResult: category one of faq, high_intent, other, unknown
\* and intentScore an integer in 0..100.
C7_AlwaysClassificationResult ==
  \A r \in DOMAIN req :
    pc[r] = "classified" => IsClassificationResult(analysis[r])

\* C8: without an API key the result is {category "unknown", intentScore 0,
\* summary the input message, suggestedAction undefined} and no request is
\* sent to the service.
C8_NoKeyFallback ==
  \A r \in DOMAIN req :
    (pc[r] = "classified" /\ ~Truthy(CLAUDE_API_KEY)) =>
      /\ outbound[r] = <<>>
      /\ Field(analysis[r], "type") = Str("unknown")
      /\ Field(analysis[r], "intentScore") = Num(0)
      /\ Field(analysis[r], "summary") = Str(UserMessage(r))
      /\ Field(analysis[r], "suggestedAction") = Undefined

\* The service failed in one of the ways named by P4: no response (network
\* error, timeout), a status outside 2xx, or a 2xx whose text is not JSON.
ServiceFailed(outcome) ==
  \/ outcome.kind = "error"
  \/ /\ outcome.kind = "response"
     /\ outcome.status \notin 200 .. 299
  \/ /\ outcome.kind = "response"
     /\ outcome.status \in 200 .. 299
     /\ outcome.data.content.t = "array"
     /\ Len(outcome.data.content.a) > 0
     /\ outcome.data.content.a[1].text \in {ProseText, TruncatedText}

\* C9: with an API key, a failure of the service (network error or timeout,
\* non-2xx response, output that is not JSON) yields {category "unknown",
\* intentScore 0, summary the input message, suggestedAction "unable to
\* analyze"}.
C9_FailureFallback ==
  \A r \in DOMAIN req :
    (pc[r] = "classified" /\ Truthy(CLAUDE_API_KEY) /\ ServiceFailed(svc[r])) =>
      analysis[r] = Obj([type |-> Str("unknown"), intentScore |-> Num(0),
                         summary |-> Str(UserMessage(r)),
                         suggestedAction |-> Str(UnableToAnalyze)])

\* The second event of a batch was classified from a 200 response whose
\* text is not JSON.
C9_Witness ==
  \E r \in DOMAIN req :
    /\ pc[r] = "classified"
    /\ Truthy(CLAUDE_API_KEY)
    /\ svc[r].kind = "response"
    /\ svc[r].status = 200
    /\ ServiceFailed(svc[r])
    /\ classifyCalls[r] = <<"m1", "m2">>

RequiredFields == {"type", "intentScore", "summary", "suggestedAction"}

\* The service answered 2xx with a text that is JSON but not an object with
\* all required fields.
ParsedButIncomplete(outcome) ==
  /\ outcome.kind = "response"
  /\ outcome.status \in 200 .. 299
  /\ outcome.data.content.t = "array"
  /\ Len(outcome.data.content.a) > 0
  /\ LET parsed == JSONParse(outcome.data.content.a[1].text) IN
       /\ ~parsed.threw
       /\ \/ parsed.value.t # "object"
          \/ \E k \in RequiredFields : k \notin DOMAIN parsed.value.f

\* C10: output that parses as JSON but lacks one of type, intentScore,
\* summary, suggestedAction, or is no object at all, yields the fallback
\* result and not the parsed value.
C10_IncompleteYieldsFallback ==
  \A r \in DOMAIN req :
    (pc[r] = "classified" /\ ParsedButIncomplete(svc[r])) =>
      analysis[r] = Obj([type |-> Str("unknown"), intentScore |-> Num(0),
                         summary |-> Str(UserMessage(r)),
                         suggestedAction |-> Str(UnableToAnalyze)])

\* The classification of a message failed: no key is configured, the service
\* failed, or its output is JSON without the required fields.
ClassificationFailed(outcome) ==
  \/ outcome.kind = "none"
  \/ ServiceFailed(outcome)
  \/ ParsedButIncomplete(outcome)

\* C11: a qualifying event whose classification failed still gets its log
\* record, carrying its message text and the fallback result, and the handler
\* goes on with the batch: once the classifier has returned, the number of
\* records equals the number of classifications and the last record is the
\* fallback for the last message classified.
C11_FailureStillLogged ==
  \A r \in DOMAIN req :
    ( /\ classifyCalls[r] # <<>>
      /\ pc[r] \notin {"awaitClaude", "classified"}
      /\ ClassificationFailed(svc[r]) ) =>
      LET w == SinkOf(r)
          n == Len(classifyCalls[r])
      IN /\ Len(w) = n
         /\ w[n].message = Str(classifyCalls[r][n])
         /\ w[n].analysisType = Str("unknown")
         /\ w[n].intentScore = Num(0)

\* The batch request r carries on the wire; empty when it has no events array.
BatchOf(r) ==
  LET events == ParseBody(req[r].wire).events IN
  IF events.t = "array" THEN events.a ELSE <<>>

IsPrefix(a, b) == Len(a) <= Len(b) /\ \A i \in 1 .. Len(a) : a[i] = b[i]

\* C15: one message, at most one request to the classification service: with
\* a key every call of the classifier posts exactly once, without a key none
\* does, and the posts follow the qualifying events one for one, so a failed
\* post is never repeated.
C15_SingleAttempt ==
  \A r \in DOMAIN req :
    /\ outbound[r] = IF Truthy(CLAUDE_API_KEY) THEN classifyCalls[r] ELSE <<>>
    /\ IsPrefix(outbound[r], QualifyingMessages(BatchOf(r)))

\* After a post that failed, the handler has gone on to the next message
\* and posted that one.
C15_Witness ==
  \E r \in DOMAIN req :
    /\ outbound[r] = <<"m1", "m2">>
    /\ SinkOf(r) # <<>>
    /\ SinkOf(r)[1].suggestedAction = Str(UnableToAnalyze)

\* C16: the 200 response is sent only when every qualifying event of the
\* batch has been classified and written to the sink, and nothing of the
\* request is classified, posted or written after it.
C16_RespondsAfterBatch ==
  /\ [](\A r \in DOMAIN req :
          res[r] = Acknowledged =>
            /\ pc[r] = "done"
            /\ classifyCalls[r] = QualifyingMessages(BatchOf(r))
            /\ SinkMessages(r) = QualifyingMessages(BatchOf(r)))
  /\ [][\A r \in DOMAIN req :
          res[r] = Acknowledged =>
            /\ classifyCalls'[r] = classifyCalls[r]
            /\ outbound'[r] = outbound[r]
            /\ SelectSeq(sink', LAMBDA rec : rec.req = r) = SinkOf(r)]_vars

\* A batch of two qualifying events has been answered 200.
C16_Witness ==
  \E r \in DOMAIN req :
    /\ res[r] = Acknowledged
    /\ Len(SinkOf(r)) = 2

\* C18: each record pairs the message text, userId and groupId ("N/A" when
\* the event has none) of one qualifying event, the records following the
\* qualifying events in order, with the type, intentScore, summary and
\* suggestedAction of the result the classifier returned for that event.
C18_RecordPairsOwnEvent ==
  \A r \in DOMAIN req :
    LET w == SinkOf(r)
        q == SelectSeq(BatchOf(r), Qualifying)
    IN /\ Len(w) <= Len(q)
       /\ \A i \in 1 .. Len(w) :
            /\ w[i].message = Str(q[i].message.text)
            /\ w[i].userId = q[i].source.userId
            /\ w[i].groupId = IF q[i].source.groupId = Undefined
                              THEN Str("N/A") ELSE q[i].source.groupId
            /\ w[i].suggestedAction = Str(UnableToAnalyze)
                 => w[i].summary = w[i].message
       /\ pc[r] = "awaitSink" =>
            /\ w[Len(w)].message = Str(classifyCalls[r][Len(classifyCalls[r])])
            /\ w[Len(w)].analysisType = Field(analysis[r], "type")
            /\ w[Len(w)].intentScore = Field(analysis[r], "intentScore")
            /\ w[Len(w)].summary = Field(analysis[r], "summary")
            /\ w[Len(w)].suggestedAction = Field(analysis[r], "suggestedAction")

\* A group message and a direct message of one batch have both been written,
\* the first with the category the service returned.
C18_Witness ==
  \E r \in DOMAIN req :
    /\ Len(SinkOf(r)) = 2
    /\ SinkOf(r)[1].groupId = Str("G1")
    /\ SinkOf(r)[1].analysisType = Str("faq")
    /\ SinkOf(r)[2].groupId = Str("N/A")

(***************************************************************************)
(* The token minter of src/generate-token.js: a command-line run that      *)
(* signs a JWT with the configured RSA key and exchanges it for a channel  *)
(* access token.                                                           *)
(*                                                                         *)
(* Scope: PRIVATE_KEY and the issuer's response body are token sequences   *)
(* parsed by JSONParse; RSA signing and base64url are symbolic; a JWK      *)
(* that carries all eight fields and kty "RSA" is taken to be a usable     *)
(* key; the `exp` claim (clock) and the progress lines of the console are  *)
(* left out; the issuer's response, once begun, ends or errors.            *)
(***************************************************************************)

\* A text held in an environment variable or a response body.
TokenText(toks) == [t |-> "text", toks |-> toks]

\* `!v` for a value of process.env.
NotSet(v) == IF v.t = "text" THEN v.toks = <<>> ELSE ~Truthy(v)

\* generate-token.js:86
requiredFields == <<"n", "e", "d", "p", "q", "dp", "dq", "qi">>

\* An Error object: what the run can read of it.
ErrorObject(name, message) ==
  Obj([name |-> Str(name), message |-> message, stack |-> Str("stack")])

\* The template string of generate-token.js:89 with its argument.
MissingFieldMessage(field) ==
  [t |-> "string", s |-> "missing private key field: ", arg |-> field]

\* As generatePEM, without the check of the required fields.
generatePEM_Unchecked(jwk) ==
  IF Get(jwk, "kty").threw
    THEN Throw(ErrorObject("TypeError", Str("cannot read properties")))
  ELSE IF Field(jwk, "kty") # Str("RSA")
    THEN Throw(ErrorObject("TypeError", Str("The property 'key.kty' is invalid")))
  ELSE Return([pem |-> jwk])

\* generatePEM (generate-token.js:81-103): the first required field, in the
\* order of the list, whose value is falsy is reported; crypto.createPrivateKey
\* then rejects a JWK whose kty is not a key type.
generatePEM(jwk) ==
  LET missing == {i \in DOMAIN requiredFields :
                    \/ Get(jwk, requiredFields[i]).threw
                    \/ ~Truthy(Field(jwk, requiredFields[i]))}
      first == CHOOSE i \in missing : \A j \in missing : i <= j
  IN IF missing # {} /\ Get(jwk, requiredFields[first]).threw
       THEN Throw(ErrorObject("TypeError", Str("cannot read properties")))
     ELSE IF missing # {}
       THEN Throw(ErrorObject("Error", MissingFieldMessage(requiredFields[first])))
     ELSE generatePEM_Unchecked(jwk)

\* Buffer.from(JSON.stringify(x)).toString('base64') made URL-safe.
Base64Url(x) == [b64url |-> x]

\* crypto.createSign('RSA-SHA256').update(message).sign(key, 'base64')
RsaSha256(key, message) == [alg |-> "RSA-SHA256", key |-> key, msg |-> message]

\* generateJWT (generate-token.js:39-78).
generateJWT(jwk, kid, channelId) ==
  LET header  == [alg |-> "RS256", typ |-> "JWT", kid |-> kid]
      payload == [iss |-> channelId, sub |-> channelId,
                  aud |-> "https://api.line.me/", token_exp |-> 86400]
      message == <<Base64Url(header), Base64Url(payload)>>
      privateKeyPEM == generatePEM(jwk)
  IN IF privateKeyPEM.threw THEN privateKeyPEM
     ELSE Return(message \o
                 <<Base64Url(RsaSha256(privateKeyPEM.value, message))>>)

\* The body written to the issuer (generate-token.js:109-112).
PostData(jwt) ==
  [grant_type |-> "urn:ietf:params:oauth:grant-type:jwt-bearer",
   assertion  |-> jwt]

\* States of the promise returned by issueChannelAccessToken.
Pending     == [state |-> "pending"]
Resolved(v) == [state |-> "resolved", value |-> v]
Rejected(e) == [state |-> "rejected", reason |-> e]

\* What the run prints, by report.
MissingEnvironment == [what |-> "missing environment variables"]
InvalidKeyJson     == [what |-> "PRIVATE_KEY is not valid JSON"]
TokenReport(result) ==
  [what |-> "channel access token",
   access_token |-> Field(result, "access_token"),
   key_id |-> Field(result, "key_id")]
ApiErrorReport(result) ==
  [what |-> "LINE API error",
   error |-> Field(result, "error"),
   description |-> Field(result, "error_description")]
ParseFailureReport(data) == [what |-> "cannot parse response", raw |-> data]
NetworkErrorReport(e)    == [what |-> "network error", error |-> e]
FatalReport(error)       == [what |-> "error", message |-> Field(error, "message")]

\* The catch of generate-token.js:155-159.
ParseFailure(name, data) ==
  [out     |-> <<ParseFailureReport(data)>>,
   promise |-> Rejected(ErrorObject(name, Str("unexpected response")))]

\* As OnEnd, with the issuer's error branch rejecting with a generic error.
OnEnd_GenericError(data) ==
  LET parsed == JSONParse(data) IN
  IF parsed.threw THEN ParseFailure(parsed.error, data)
  ELSE LET result == parsed.value
           token  == Get(result, "access_token")
       IN IF token.threw THEN ParseFailure("TypeError", data)
          ELSE IF Truthy(token.value)
            THEN [out |-> <<TokenReport(result)>>, promise |-> Resolved(result)]
          ELSE IF Truthy(Field(result, "error"))
            THEN [out |-> <<>>,
                  promise |-> Rejected(ErrorObject("Error", Str("request failed")))]
          ELSE [out |-> <<>>, promise |-> Pending]

\* res.on('end') (generate-token.js:133-160): what it prints and what it
\* does to the promise. A body that parses to a value with neither a truthy
\* access_token nor a truthy error takes no branch.
OnEnd(data) ==
  LET parsed == JSONParse(data) IN
  IF parsed.threw THEN ParseFailure(parsed.error, data)
  ELSE LET result == parsed.value
           token  == Get(result, "access_token")
       IN IF token.threw THEN ParseFailure("TypeError", data)
          ELSE IF Truthy(token.value)
            THEN [out |-> <<TokenReport(result)>>, promise |-> Resolved(result)]
          ELSE IF Truthy(Field(result, "error"))
            THEN [out |-> <<ApiErrorReport(result)>>, promise |-> Rejected(result)]
          ELSE [out |-> <<>>, promise |-> Pending]

\* generate-token.js:15-17
PRIVATE_KEY_JSON == tmEnv.PRIVATE_KEY
KID              == tmEnv.KID
CHANNEL_ID       == tmEnv.CHANNEL_ID

\* The members of a JWK text: kty if asked for, then the given RSA fields.
KeyMembers(fields, withKty, blank) ==
  LET chosen == SelectSeq(requiredFields, LAMBDA f : f \in fields) IN
  (IF withKty THEN << <<"kty", Str("RSA")>> >> ELSE <<>>)
    \o [i \in DOMAIN chosen |->
          <<chosen[i], IF chosen[i] \in blank THEN Str("") ELSE Str("b64")>>]

AllFields == {requiredFields[i] : i \in DOMAIN requiredFields}

\* Values of PRIVATE_KEY: unset, empty, not JSON, JSON that is no object,
\* a JWK with any subset of the RSA fields, a full JWK with one field empty.
PrivateKeyPool ==
  {Undefined, TokenText(<<>>), TokenText(<<Junk("{n:")>>),
   TokenText(<<Null>>), TokenText(<<Num(42)>>)}
  \cup {TokenText(ObjectText(KeyMembers(fields, withKty, {}))) :
          fields \in SUBSET AllFields, withKty \in BOOLEAN}
  \cup {TokenText(ObjectText(KeyMembers(AllFields, TRUE, {f}))) : f \in AllFields}

KidPool       == {Undefined, Str("kid-1")}
ChannelIdPool == {Undefined, Str("1234567890")}

MinterEnvPool ==
  [PRIVATE_KEY : PrivateKeyPool, KID : KidPool, CHANNEL_ID : ChannelIdPool]

TokenBody ==
  ObjectText(<< <<"access_token", Str("token-1")>>, <<"token_type", Str("Bearer")>>,
                <<"expires_in", Num(2592000)>>, <<"key_id", Str("key-1")>> >>)
ErrorBody ==
  ObjectText(<< <<"error", Str("invalid_request")>>,
                <<"error_description", Str("invalid assertion")>> >>)
ErrorOnlyBody    == ObjectText(<< <<"error", Str("invalid_client")>> >>)
BlankErrorBody   ==
  ObjectText(<< <<"error", Str("")>>, <<"error_description", Str("failed")>> >>)
TokenAndErrorBody ==
  ObjectText(<< <<"access_token", Str("token-1")>>, <<"error", Str("warning")>> >>)
MessageBody      == ObjectText(<< <<"message", Str("Not Found")>> >>)
EmptyObjectBody  == ObjectText(<<>>)

\* What the issuer may do with the request: fail the connection, or answer
\* with a body (the status code is not read by the run).
IssuerPool ==
  {[kind |-> "error", code |-> "ECONNRESET"]}
  \cup {[kind |-> "end", data |-> data] :
          data \in {TokenBody, ErrorBody, ErrorOnlyBody, BlankErrorBody,
                    TokenAndErrorBody, MessageBody, EmptyObjectBody,
                    <<Null>>, <<Num(42)>>, <<Junk("<html>")>>, <<>>}}

\* A run of the minter; no webhook server in the picture.
InitMinter ==
  /\ env = [LINE_CHANNEL_SECRET |-> Undefined, CLAUDE_API_KEY |-> Undefined,
            express |-> 4]
  /\ req = <<>>
  /\ pc = <<>>
  /\ layer = <<>>
  /\ idx = <<>>
  /\ analysis = <<>>
  /\ res = <<>>
  /\ svc = <<>>
  /\ sigChecks = <<>>
  /\ classifyCalls = <<>>
  /\ outbound = <<>>
  /\ sink = <<>>
  /\ tmEnv \in MinterEnvPool
  /\ tmPc = "start"
  /\ tmKey = Undefined
  /\ tmSent = <<>>
  /\ tmIssuer = NoOutcome
  /\ tmPromise = [state |-> "none"]
  /\ tmOut = <<>>
  /\ tmExit = Undefined

\* process.exit(code) after printing the given reports.
ExitWith(reports, code) ==
  /\ tmOut' = tmOut \o reports
  /\ tmExit' = Num(code)
  /\ tmPc' = "exited"

\* generate-token.js:15-36: the start-up validation and JSON.parse.
LoadEnvironment ==
  /\ tmPc = "start"
  /\ IF NotSet(PRIVATE_KEY_JSON) \/ ~Truthy(KID) \/ ~Truthy(CHANNEL_ID)
       THEN ExitWith(<<MissingEnvironment>>, 1) /\ UNCHANGED tmKey
     ELSE LET parsed == JSONParse(PRIVATE_KEY_JSON.toks) IN
       IF parsed.threw
         THEN ExitWith(<<InvalidKeyJson>>, 1) /\ UNCHANGED tmKey
         ELSE /\ tmKey' = parsed.value
              /\ tmPc' = "main"
              /\ UNCHANGED <<tmOut, tmExit>>
  /\ UNCHANGED <<tmEnv, tmSent, tmIssuer, tmPromise>>

\* main up to its await (generate-token.js:174-179): generateJWT, then the
\* synchronous part of issueChannelAccessToken (106-131, 168-169); a throw
\* lands in the catch of 180-188.
Main ==
  /\ tmPc = "main"
  /\ LET jwt == generateJWT(tmKey, KID.s, CHANNEL_ID.s) IN
     IF jwt.threw
       THEN ExitWith(<<FatalReport(jwt.error)>>, 1)
            /\ UNCHANGED <<tmSent, tmPromise>>
       ELSE /\ tmSent' = Append(tmSent, PostData(jwt.value))
            /\ tmPromise' = Pending
            /\ tmPc' = "awaitIssuer"
            /\ UNCHANGED <<tmOut, tmExit>>
  /\ UNCHANGED <<tmEnv, tmKey, tmIssuer>>

\* The response ends (generate-token.js:133-160).
ResponseEnd ==
  /\ tmPc = "awaitIssuer"
  /\ \E o \in IssuerPool :
       /\ o.kind = "end"
       /\ tmIssuer' = o
       /\ tmOut' = tmOut \o OnEnd(o.data).out
       /\ tmPromise' = OnEnd(o.data).promise
  /\ tmPc' = "ended"
  /\ UNCHANGED <<tmEnv, tmKey, tmSent, tmExit>>

\* req.on('error') (generate-token.js:163-166).
RequestError ==
  /\ tmPc = "awaitIssuer"
  /\ \E o \in IssuerPool :
       /\ o.kind = "error"
       /\ tmIssuer' = o
       /\ tmOut' = Append(tmOut, NetworkErrorReport(o.code))
       /\ tmPromise' = Rejected(ErrorObject(o.code, Str("socket hang up")))
  /\ tmPc' = "ended"
  /\ UNCHANGED <<tmEnv, tmKey, tmSent, tmExit>>

\* The await of generate-token.js:179 completes: main returns and the
\* process ends with code 0, or the catch of 180-188 reports and exits 1.
MainResumes ==
  /\ tmPc = "ended"
  /\ tmPromise.state # "pending"
  /\ IF tmPromise.state = "resolved"
       THEN ExitWith(<<>>, 0)
       ELSE ExitWith(<<FatalReport(tmPromise.reason)>>, 1)
  /\ UNCHANGED <<tmEnv, tmKey, tmSent, tmIssuer, tmPromise>>

\* The promise was left pending and nothing else keeps the event loop
\* alive: node ends the process with code 0, main still suspended.
EventLoopDrains ==
  /\ tmPc = "ended"
  /\ tmPromise.state = "pending"
  /\ ExitWith(<<>>, 0)
  /\ UNCHANGED <<tmEnv, tmKey, tmSent, tmIssuer, tmPromise>>

NextMinter ==
  \/ LoadEnvironment /\ UNCHANGED serverVars
  \/ Main /\ UNCHANGED serverVars
  \/ ResponseEnd /\ UNCHANGED serverVars
  \/ RequestError /\ UNCHANGED serverVars
  \/ MainResumes /\ UNCHANGED serverVars
  \/ EventLoopDrains /\ UNCHANGED serverVars

SpecMinter == InitMinter /\ [][NextMinter]_vars

(***************************************************************************)
(* Properties of the token minter.                                         *)
(***************************************************************************)

\* The signing credential as configured: the JSON value of PRIVATE_KEY.
Credential ==
  IF PRIVATE_KEY_JSON.t = "text" THEN JSONParse(PRIVATE_KEY_JSON.toks)
  ELSE Throw("unset")

\* Required RSA fields the credential, a JSON object, has no value for.
MissingFields ==
  IF ~Credential.threw /\ Credential.value.t = "object"
    THEN {f \in AllFields : ~Truthy(Field(Credential.value, f))}
    ELSE {}

FirstMissing ==
  requiredFields[CHOOSE i \in DOMAIN requiredFields :
                   /\ requiredFields[i] \in MissingFields
                   /\ \A j \in 1 .. (i - 1) : requiredFields[j] \notin MissingFields]

\* The run printed the error that names the given field.
NamesMissingField(f) ==
  \E i \in DOMAIN tmOut :
    /\ tmOut[i].what = "error"
    /\ "arg" \in DOMAIN tmOut[i].message
    /\ tmOut[i].message.arg = f

\* C13 as stated: a run whose credential lacks a required RSA field ends
\* with a non-zero exit code and an error naming a missing field, and sends
\* no token-exchange request.
C13_AlwaysNamesMissingField ==
  (tmPc = "exited" /\ MissingFields # {}) =>
    /\ tmExit = Num(1)
    /\ tmSent = <<>>
    /\ \E f \in MissingFields : NamesMissingField(f)

\* C13, amended: a run whose credential lacks a required RSA field never
\* sends a token-exchange request and ends with exit code 1; when KID and
\* CHANNEL_ID are configured its error names the first missing field in the
\* order n, e, d, p, q, dp, dq, qi, and otherwise it reports the missing
\* environment variables and names no field.
C13_MissingFieldFailsRun ==
  MissingFields # {} =>
    /\ tmSent = <<>>
    /\ tmPc = "exited" =>
         /\ tmExit = Num(1)
         /\ IF Truthy(KID) /\ Truthy(CHANNEL_ID)
              THEN NamesMissingField(FirstMissing)
              ELSE tmOut = <<MissingEnvironment>>

C13_Witness ==
  /\ tmPc = "exited"
  /\ MissingFields = {"d", "qi"}
  /\ NamesMissingField("d")
  /\ tmExit = Num(1)

\* The issuer answered with a JSON object carrying an error and no token.
IssuerErrorAnswer ==
  /\ tmIssuer.kind = "end"
  /\ ~JSONParse(tmIssuer.data).threw
  /\ JSONParse(tmIssuer.data).value.t = "object"
  /\ Truthy(Field(JSONParse(tmIssuer.data).value, "error"))
  /\ ~Truthy(Field(JSONParse(tmIssuer.data).value, "access_token"))

\* C14: when the issuer answers with an error object, the run prints that
\* object's error and error_description, the promise is rejected with it,
\* the run ends with exit code 1, and only one request was ever sent.
C14_IssuerErrorFailsRun ==
  /\ Len(tmSent) <= 1
  /\ IssuerErrorAnswer =>
       LET result == JSONParse(tmIssuer.data).value IN
       /\ Len(tmSent) = 1
       /\ tmPromise = Rejected(result)
       /\ \E i \in DOMAIN tmOut :
            tmOut[i] = [what |-> "LINE API error",
                        error |-> Field(result, "error"),
                        description |-> Field(result, "error_description")]
       /\ tmPc = "exited" => tmExit = Num(1)

C14_Witness ==
  /\ tmPc = "exited"
  /\ tmIssuer = [kind |-> "end", data |-> ErrorBody]
  /\ tmExit = Num(1)
  /\ tmOut[1].error = Str("invalid_request")

\* C19: a run that sent the token-exchange request ends with its promise
\* settled, resolved or rejected, and with an outcome reported.
C19_SentRunReportsOutcome ==
  (tmPc = "exited" /\ tmSent # <<>>) =>
    /\ tmPromise.state \in {"resolved", "rejected"}
    /\ tmOut # <<>>

(***************************************************************************)
(* Two requests in flight in one server process.                           *)
(***************************************************************************)

\* A request as LINE sends it: compact body, signed with the channel secret.
Signed(batch) ==
  LET wire == Text([events |-> Arr(batch)], "compact") IN
  [wire |-> wire, signature |-> HmacBase64("s3cret", wire), body |-> Undefined,
   rawBody |-> Undefined, parsed |-> FALSE]

M1Event     == TextEvent("m1", UserSource("U1", Str("G1")))
M2Event     == TextEvent("m2", UserSource("U2", Undefined))
FollowEvent == [type |-> "follow", message |-> Undefined,
                source |-> UserSource("U1", Undefined)]

\* The first request: two messages, or a message and then an event without
\* a source. The second: a follow and a message, an event without a source,
\* or a message that is not signed.
FirstPool  == {Signed(<<M1Event, M2Event>>),
               Signed(<<M1Event, TextEvent("m3", Undefined)>>)}
SecondPool == {Signed(<<FollowEvent, M2Event>>),
               Signed(<<TextEvent("m3", Undefined)>>),
               [Signed(<<M1Event>>) EXCEPT !.signature = Undefined]}

InitPair ==
  /\ env \in [LINE_CHANNEL_SECRET : {Str("s3cret")},
              CLAUDE_API_KEY : {Str("sk-key")}, express : ExpressPool]
  /\ req \in {<<a, b>> : a \in FirstPool, b \in SecondPool}
  /\ pc = [r \in DOMAIN req |-> "chain"]
  /\ layer = [r \in DOMAIN req |-> 1]
  /\ idx = [r \in DOMAIN req |-> 0]
  /\ analysis = [r \in DOMAIN req |-> Undefined]
  /\ res = [r \in DOMAIN req |-> NoResponse]
  /\ svc = [r \in DOMAIN req |-> NoOutcome]
  /\ sigChecks = [r \in DOMAIN req |-> <<>>]
  /\ classifyCalls = [r \in DOMAIN req |-> <<>>]
  /\ outbound = [r \in DOMAIN req |-> <<>>]
  /\ sink = <<>>
  /\ MinterIdle

SpecPair == InitPair /\ [][Next]_vars

(***************************************************************************)
(* The /webhook handler run from start to end with no other request in     *)
(* the process (server.js:108-166), as a function of the request and of    *)
(* what the classification service does at each event.                     *)
(***************************************************************************)

\* The handler's promise rejected (see HandlerRejected).
RejectedAlone(records) ==
  [res |-> IF env.express = 4 THEN NoResponse ELSE ServerError,
   records |-> records]

\* server.js:150-159
RecordAlone(event, result) ==
  [userId         |-> event.source.userId,
   groupId        |-> IF Truthy(event.source.groupId)
                      THEN event.source.groupId ELSE Str("N/A"),
   message        |-> Str(event.message.text),
   analysisType   |-> Field(result, "type"),
   intentScore    |-> Field(result, "intentScore"),
   summary        |-> Field(result, "summary"),
   suggestedAction |-> Field(result, "suggestedAction")]

\* server.js:125-165 from event i on.
RECURSIVE LoopAlone(_, _, _, _)
LoopAlone(events, i, outcomes, records) ==
  IF i > Len(events) THEN [res |-> Acknowledged, records |-> records]
  ELSE LET event == events[i] IN
    IF event.type # "message" THEN LoopAlone(events, i + 1, outcomes, records)
    ELSE IF event.message = Undefined THEN RejectedAlone(records)
    ELSE IF event.message.type # "text"
      THEN LoopAlone(events, i + 1, outcomes, records)
    ELSE IF event.source = Undefined THEN RejectedAlone(records)
    ELSE LET result == IF ~Truthy(CLAUDE_API_KEY)
                         THEN NoKeyResult(event.message.text)
                         ELSE AnalyzeAfterPost(event.message.text, outcomes[i])
         IN IF Get(result, "type").threw THEN RejectedAlone(records)
            ELSE LoopAlone(events, i + 1, outcomes,
                           Append(records, RecordAlone(event, result)))

\* server.js:108-166 for a request as received.
HandleAlone(rq, outcomes) ==
  LET parsed == [rq EXCEPT !.body = ParseBody(rq.wire)]
      check  == validateLineSignature(VerifiedBody(parsed), rq.signature)
  IN IF check.threw THEN RejectedAlone(<<>>)
     ELSE IF ~check.value THEN [res |-> InvalidSignature, records |-> <<>>]
     ELSE IF parsed.body.events.t # "array" THEN RejectedAlone(<<>>)
     ELSE LoopAlone(parsed.body.events.a, 1, outcomes, <<>>)

\* A request as it was received.
Received(r) == [req[r] EXCEPT !.body = Undefined, !.parsed = FALSE]

\* What request r got: its response and its records, in order.
Observed(r) ==
  LET w == SinkOf(r) IN
  [res |-> res[r],
   records |-> [i \in 1 .. Len(w) |->
                  [k \in DOMAIN w[i] \ {"req"} |-> w[i][k]]]]

\* C17: a request handled while another one is in flight ends with a
\* response and a sequence of records that it can end with when handled
\* alone, for some behaviour of the classification service.
C17_ConcurrentAsAlone ==
  \A r \in DOMAIN req :
    Finished(r) =>
      \E outcomes \in [1 .. Len(BatchOf(r)) -> ServiceOutcomes] :
        HandleAlone(Received(r), outcomes) = Observed(r)

\* Both requests answered 200, their records interleaved in the sink.
C17_Witness ==
  /\ DOMAIN req = {1, 2}
  /\ res[1] = Acknowledged /\ res[2] = Acknowledged
  /\ Len(sink) = 3
  /\ sink[1].req = 1 /\ sink[2].req = 2 /\ sink[3].req = 1

====
